---- MODULE Spec2Model ----
(***************************************************************************)
(* financier: Stock (lib/Stock.js) and Portfolio (lib/Portfolio.js).       *)
(*                                                                         *)
(* A Stock accumulates tick returns and their average.  A Portfolio keeps  *)
(* Stock objects under their ticker, stores each stock's market value and  *)
(* weight ON the Stock object, and computes the risk w^T C w, cached       *)
(* against JSON.stringify(this.stocks).                                    *)
(*                                                                         *)
(* JavaScript numbers are modelled as exact rationals <<n, d>> extended    *)
(* with the IEEE outcomes of a division by zero: <<1, 0>> is Infinity,     *)
(* <<-1, 0>> is -Infinity and <<0, 0>> is NaN.  Rounding is not modelled.  *)
(***************************************************************************)
EXTENDS Integers, Sequences, FiniteSets, TLC

(***************************************************************************)
(* Bounds and inputs of the model.                                         *)
(***************************************************************************)
\* Longest returns array a stock is pushed to.
MaxLen == 2

\* Longest returns array in the specification of the tests' example.
MaxTicks == 3

\* The tickers of the Stock objects the caller constructs (one per ticker).
Tickers == {"intel", "apple"}

\* The (open, close) ticks of the tests, in the order they are pushed: the
\* n-th push on a stock takes the n-th tick, starting over after the last.
Feed == << <<10, 20>>, <<20, 30>>, <<30, 15>> >>

Tick(n) == Feed[((n - 1) % Len(Feed)) + 1]

\* Portfolio instances.  Portfolio 0 does not exist: 0 marks an object the
\* caller constructed with new Stock(ticker).
Portfolios == {1, 2}

\* The portfolio of the specifications that have one portfolio only.
Single == {1}

(***************************************************************************)
(* JavaScript number arithmetic.                                           *)
(***************************************************************************)
Abs(n) == IF n < 0 THEN 0 - n ELSE n

Sign(n) == IF n > 0 THEN 1 ELSE IF n < 0 THEN 0 - 1 ELSE 0

RECURSIVE GCD(_, _)
GCD(a, b) == IF b = 0 THEN a ELSE GCD(b, a % b)

\* The number n / d in lowest terms; a zero denominator gives Infinity,
\* -Infinity or NaN by the sign of n.
Norm(n, d) ==
  IF d = 0 THEN <<Sign(n), 0>>
  ELSE LET g == GCD(Abs(n), Abs(d))
           s == Sign(d)
       IN  <<(s * n) \div g, (s * d) \div g>>

Num(n) == <<n, 1>>

NaN == <<0, 0>>

\* The value of a property that was never assigned.
Undefined == <<>>

IsFinite(x) == x[2] # 0

Add(x, y) ==
  IF IsFinite(x) /\ IsFinite(y) THEN Norm(x[1] * y[2] + y[1] * x[2], x[2] * y[2])
  ELSE IF x = NaN \/ y = NaN THEN NaN
  ELSE IF IsFinite(x) THEN y
  ELSE IF IsFinite(y) THEN x
  ELSE IF x = y THEN x
  ELSE NaN

Neg(x) == <<0 - x[1], x[2]>>

Sub(x, y) == Add(x, Neg(y))

Mul(x, y) == Norm(x[1] * y[1], x[2] * y[2])

Div(x, y) ==
  IF y = NaN THEN NaN
  ELSE Mul(x, IF y[1] < 0 THEN <<0 - y[2], 0 - y[1]>> ELSE <<y[2], y[1]>>)

\* x <= 0 as JavaScript evaluates it: false for NaN.
LeqZero(x) == x # NaN /\ x[1] <= 0

\* A JavaScript number is an IEEE-754 double: a quotient that has no finite
\* binary expansion is stored rounded to 53 significant bits, to the nearest
\* double, ties to even.  The model keeps the quotient itself as <<n, d>>;
\* RoundingError(x) is what the stored double differs from it by, counted in
\* units of 2^-LastPlace (the last place of a double in [1, 2)).
LastPlace == 52

\* 2^k modulo m.
RECURSIVE Pow2Mod(_, _)
Pow2Mod(k, m) == IF k = 0 THEN 1 % m ELSE (2 * Pow2Mod(k - 1, m)) % m

\* The binary exponent of a / d for a, d > 0: 2^e <= a / d < 2^(e + 1).
RECURSIVE Exponent(_, _)
Exponent(a, d) ==
  IF a >= 2 * d THEN Exponent(a, 2 * d) + 1
  ELSE IF a < d THEN Exponent(2 * a, d) - 1
  ELSE 0

\* 2^e as a number, e of either sign.
RECURSIVE Pow2(_)
Pow2(e) ==
  IF e = 0 THEN Num(1)
  ELSE IF e > 0 THEN Mul(Num(2), Pow2(e - 1))
  ELSE Div(Pow2(e + 1), Num(2))

\* Half a unit in the last place of the double nearest to x, in units of
\* 2^-LastPlace.
HalfUlp(x) ==
  IF ~IsFinite(x) \/ x[1] = 0 THEN Num(0)
  ELSE Div(Pow2(Exponent(Abs(x[1]), x[2])), Num(2))

\* (the double nearest to x) - x, in units of 2^-LastPlace.
RoundingError(x) ==
  IF ~IsFinite(x) \/ x[1] = 0 THEN Num(0)
  ELSE LET a == Abs(x[1])
           d == x[2]
           e == Exponent(a, d)
           r2 == (a * Pow2Mod(LastPlace - e, 2 * d)) % (2 * d)
           r == r2 % d
           up == 2 * r > d \/ (2 * r = d /\ r2 >= d)
           ulps == IF r = 0 THEN Num(0)
                   ELSE IF up THEN Norm(d - r, d) ELSE Norm(0 - r, d)
       IN  Mul(Num(Sign(x[1])), Mul(ulps, Pow2(e)))

(***************************************************************************)
(* State.                                                                  *)
(***************************************************************************)
VARIABLES
  arrays,    \* arrays[t]: the array that new Stock(t) of the caller made
  heap,      \* heap[o]: the Stock object o: returns (which array), average,
             \*          value and weight
  stocks,    \* stocks[p]: Portfolio.stocks, the member objects in key order
  value,     \* value[p]: Portfolio.value, the total market value
  risk,      \* risk[p]: Portfolio.risk
  cache,     \* cache[p]: Portfolio.cache
  threw      \* whether the last call ended in a TypeError

vars == <<arrays, heap, stocks, value, risk, cache, threw>>

\* A Stock object is named by who constructed it and its ticker: <<0, t>> is
\* the caller's new Stock(t), <<p, t>> the copy made by portfolio p's
\* addStock(stock, value, true), which stays reachable only as p.stocks[t].
Objects == ({0} \cup Portfolios) \X Tickers

Original(t) == <<0, t>>

Ticker(o) == o[2]

\* A copy that does not exist (never made, or replaced and unreachable).
NoStock ==
  [returns |-> "none", average |-> Undefined, value |-> Undefined, weight |-> Undefined]

Exists(o) == heap[o].returns # "none"

\* stock.returns: the elements of the array the Stock object o refers to.
Returns(o) == arrays[heap[o].returns]

\* function Stock(ticker): returns = [] (the array named after the ticker),
\* average = 0.
Stock(t) ==
  [returns |-> t, average |-> Num(0), value |-> Undefined, weight |-> Undefined]

\* function Portfolio(): stocks = {}, value = 0, risk = 0, cache = null.
\* this.cache = null: no string is cached.  A cached string s is held as <<s>>.
NoCache == <<>>

\* null as JSON.stringify writes it.
Null == <<"null">>

Init ==
  /\ arrays = [t \in Tickers |-> <<>>]
  /\ heap = [o \in Objects |-> IF o[1] = 0 THEN Stock(Ticker(o)) ELSE NoStock]
  /\ stocks = [p \in Portfolios |-> <<>>]
  /\ value = [p \in Portfolios |-> Num(0)]
  /\ risk = [p \in Portfolios |-> Num(0)]
  /\ cache = [p \in Portfolios |-> NoCache]
  /\ threw = FALSE

(***************************************************************************)
(* Stock.                                                                  *)
(***************************************************************************)
RECURSIVE SumSeq(_, _)
\* sum = 0; for (i = 0; i < n; i++) sum += s[i]
SumSeq(s, n) == IF n = 0 THEN Num(0) ELSE Add(SumSeq(s, n - 1), s[n])

\* An average whose loop stops one return short.
calculateAverageSkipLast(rs) == Div(SumSeq(rs, Len(rs) - 1), Num(Len(rs)))

\* Stock.prototype.calculateAverage: sum / this.returns.length.
calculateAverage(rs) == Div(SumSeq(rs, Len(rs)), Num(Len(rs)))

\* (close - open) / open * 100
Return(open, close) == Mul(Div(Num(close - open), Num(open)), Num(100))

\* A push that recalculates the average whatever wait is.
PushImmediate(o, open, close, wait) ==
  /\ Exists(o)
  /\ LET rs == Append(Returns(o), Return(open, close))
     IN  /\ arrays' = [arrays EXCEPT ![heap[o].returns] = rs]
         /\ heap' = [heap EXCEPT ![o].average = calculateAverage(rs)]
  /\ threw' = FALSE
  /\ UNCHANGED <<stocks, value, risk, cache>>

\* stock.push(open, close, wait) on the Stock object o.
Push(o, open, close, wait) ==
  /\ Exists(o)
  /\ LET rs == Append(Returns(o), Return(open, close))
     IN  /\ arrays' = [arrays EXCEPT ![heap[o].returns] = rs]
         /\ heap' = IF wait THEN heap
                    ELSE [heap EXCEPT ![o].average = calculateAverage(rs)]
  /\ threw' = FALSE
  /\ UNCHANGED <<stocks, value, risk, cache>>

\* stock.calculateAverage() on the Stock object o.
CalculateAverage(o) ==
  /\ Exists(o)
  /\ heap' = [heap EXCEPT ![o].average = calculateAverage(Returns(o))]
  /\ threw' = FALSE
  /\ UNCHANGED <<arrays, stocks, value, risk, cache>>

(***************************************************************************)
(* Portfolio.                                                              *)
(***************************************************************************)
\* Object.keys(this.stocks): the tickers in insertion order.
getStockTickers(p) == [i \in 1..Len(stocks[p]) |-> Ticker(stocks[p][i])]

\* this.stocks.hasOwnProperty(ticker)
hasStock(p, t) == \E i \in 1..Len(stocks[p]) : Ticker(stocks[p][i]) = t

\* An assignment that adds the key again when it exists.
SetKeyAppend(ms, o) == Append(ms, o)

\* this.stocks[ticker] = o: an existing key keeps its place, a new key is
\* added last.
SetKey(ms, o) ==
  IF \E i \in 1..Len(ms) : Ticker(ms[i]) = Ticker(o)
    THEN [i \in 1..Len(ms) |-> IF Ticker(ms[i]) = Ticker(o) THEN o ELSE ms[i]]
    ELSE Append(ms, o)

\* A removal by position that takes the last key when the ticker is absent.
DeleteKeyPop(ms, t) ==
  IF \E i \in 1..Len(ms) : Ticker(ms[i]) = t
    THEN SelectSeq(ms, LAMBDA o : Ticker(o) # t)
    ELSE SubSeq(ms, 1, Len(ms) - 1)

\* delete this.stocks[ticker]: nothing happens when the key is absent.
DeleteKey(ms, t) == SelectSeq(ms, LAMBDA o : Ticker(o) # t)

\* A total whose loop starts at the second member.
calculateTotalValueSkipFirst(h, ms) ==
  SumSeq([i \in 1..Len(ms) - 1 |-> h[ms[i + 1]].value], Len(ms) - 1)

\* calculateTotalValue over the members ms with the objects as in h.
calculateTotalValue(h, ms) == SumSeq([i \in 1..Len(ms) |-> h[ms[i]].value], Len(ms))

\* Weights taken against the total value as it was before the change.
calculateWeightsStaleTotal(h, ms) ==
  [o \in Objects |->
     IF \E i \in 1..Len(ms) : ms[i] = o
       THEN [h[o] EXCEPT !.weight = Div(h[o].value, value[1])]
       ELSE h[o]]

\* calculateWeights: the objects after stock.weight = stock.value / this.value
\* for every member.  The double stored is this quotient plus its
\* RoundingError.
calculateWeights(h, ms) ==
  LET total == calculateTotalValue(h, ms)
  IN  [o \in Objects |->
         IF \E i \in 1..Len(ms) : ms[i] = o
           THEN [h[o] EXCEPT !.weight = Div(h[o].value, total)]
           ELSE h[o]]

\* The copies of portfolio p that are no longer one of its members ms are
\* unreachable.
Collect(h, p, ms) ==
  [o \in Objects |->
     IF o[1] = p /\ ~(\E i \in 1..Len(ms) : ms[i] = o) THEN NoStock ELSE h[o]]

\* What every mutating Portfolio method ends with: the new members, the
\* objects with their new weights, and the new total value.
Recalculated(p, h, ms) ==
  /\ stocks' = [stocks EXCEPT ![p] = ms]
  /\ value' = [value EXCEPT ![p] = calculateTotalValue(h, ms)]
  /\ heap' = calculateWeights(Collect(h, p, ms), ms)

\* An addStock that keeps one copy per ticker for all portfolios.
AddStockOneCopy(p, t, v, clone) ==
  /\ threw' = FALSE
  /\ UNCHANGED <<arrays, risk, cache>>
  /\ LET o == IF clone THEN <<1, t>> ELSE Original(t)
         copy == [returns |-> heap[Original(t)].returns,
                  average |-> heap[Original(t)].average,
                  value |-> Undefined, weight |-> Undefined]
         h1 == IF clone THEN [heap EXCEPT ![o] = copy] ELSE heap
         h2 == [h1 EXCEPT ![o].value = Num(v)]
     IN  Recalculated(p, h2, SetKey(stocks[p], o))

\* portfolio.addStock(stock, value, clone) with the caller's Stock of ticker t.
AddStock(p, t, v, clone) ==
  /\ threw' = FALSE
  /\ UNCHANGED <<arrays, risk, cache>>
  /\ LET o == IF clone THEN <<p, t>> ELSE Original(t)
         copy == [returns |-> heap[Original(t)].returns,
                  average |-> heap[Original(t)].average,
                  value |-> Undefined, weight |-> Undefined]
         h1 == IF clone THEN [heap EXCEPT ![o] = copy] ELSE heap
         h2 == [h1 EXCEPT ![o].value = Num(v)]
     IN  Recalculated(p, h2, SetKey(stocks[p], o))

\* portfolio.removeStock(stock), by ticker or by Stock object.
RemoveStock(p, t) ==
  /\ Recalculated(p, heap, DeleteKey(stocks[p], t))
  /\ threw' = FALSE
  /\ UNCHANGED <<arrays, risk, cache>>

\* The member of portfolio p under ticker t.
Member(p, t) == CHOOSE o \in Objects : Ticker(o) = t /\ \E i \in 1..Len(stocks[p]) : stocks[p][i] = o

\* An update that registers an unknown ticker's Stock instead of failing.
UpdateStockCreates(p, t, v) ==
  /\ IF hasStock(p, t)
       THEN Recalculated(p, [heap EXCEPT ![Member(p, t)].value = Num(v)], stocks[p])
       ELSE Recalculated(p, [heap EXCEPT ![Original(t)].value = Num(v)],
                         SetKey(stocks[p], Original(t)))
  /\ threw' = FALSE
  /\ UNCHANGED <<arrays, risk, cache>>

\* An update that takes a member out when its new value is not positive.
UpdateStockValidated(p, t, v) ==
  /\ IF hasStock(p, t)
       THEN /\ IF v > 0
                 THEN Recalculated(p, [heap EXCEPT ![Member(p, t)].value = Num(v)],
                                   stocks[p])
                 ELSE Recalculated(p, heap, DeleteKey(stocks[p], t))
            /\ threw' = FALSE
       ELSE /\ UNCHANGED <<stocks, heap, value>>
            /\ threw' = TRUE
  /\ UNCHANGED <<arrays, risk, cache>>

\* portfolio.updateStock(stock, value): this.stocks[ticker] is undefined
\* for an unknown ticker, and assigning its value throws a TypeError
\* before anything is changed.
UpdateStock(p, t, v) ==
  /\ IF hasStock(p, t)
       THEN /\ Recalculated(p, [heap EXCEPT ![Member(p, t)].value = Num(v)], stocks[p])
            /\ threw' = FALSE
       ELSE /\ UNCHANGED <<stocks, heap, value>>
            /\ threw' = TRUE
  /\ UNCHANGED <<arrays, risk, cache>>

\* A covariance divided by n instead of n - 1.
calculateCovariancePopulation(a, b) ==
  IF a = b THEN Num(1)
  ELSE LET ra == Returns(a)
           rb == Returns(b)
           n == IF Len(ra) < Len(rb) THEN Len(ra) ELSE Len(rb)
           diffs == [i \in 1..n |-> Mul(Sub(ra[i], heap[a].average),
                                        Sub(rb[i], heap[b].average))]
       IN  Div(SumSeq(diffs, n), Num(n))

\* A covariance that takes both differences against stockA's average.
calculateCovarianceOneAverage(a, b) ==
  IF a = b THEN Num(1)
  ELSE LET ra == Returns(a)
           rb == Returns(b)
           n == IF Len(ra) < Len(rb) THEN Len(ra) ELSE Len(rb)
           diffs == [i \in 1..n |-> Mul(Sub(ra[i], heap[a].average),
                                        Sub(rb[i], heap[a].average))]
       IN  Div(SumSeq(diffs, n), Num(n - 1))

\* calculateCovariance(stockA, stockB) on the Stock objects a and b.
calculateCovariance(a, b) ==
  IF a = b THEN Num(1)
  ELSE LET ra == Returns(a)
           rb == Returns(b)
           n == IF Len(ra) < Len(rb) THEN Len(ra) ELSE Len(rb)
           diffs == [i \in 1..n |-> Mul(Sub(ra[i], heap[a].average),
                                        Sub(rb[i], heap[b].average))]
       IN  Div(SumSeq(diffs, n), Num(n - 1))

\* createWeightMatrix: the members' weights, a column in key order.
createWeightMatrix(p) == [i \in 1..Len(stocks[p]) |-> heap[stocks[p][i]].weight]

\* createCovarianceMatrix: one row per member, one column per member.
createCovarianceMatrix(p) ==
  [i \in 1..Len(stocks[p]) |->
     [j \in 1..Len(stocks[p]) |-> calculateCovariance(stocks[p][i], stocks[p][j])]]

\* A product that takes the weight of the row instead of the column.
MultiplyRowWeight(C, w) ==
  [i \in 1..Len(C) |-> SumSeq([j \in 1..Len(w) |-> Mul(C[i][j], w[i])], Len(w))]

\* covarianceMatrix.multiply(weightMatrix): a column.
Multiply(C, w) ==
  [i \in 1..Len(C) |-> SumSeq([j \in 1..Len(w) |-> Mul(C[i][j], w[j])], Len(w))]

\* weightMatrix.transpose().multiply(intermediate).e(1, 1)
TransposeMultiply(w, x) == SumSeq([i \in 1..Len(w) |-> Mul(w[i], x[i])], Len(w))

\* JSON.stringify of a number: NaN, Infinity and -Infinity are written null,
\* and a property that is undefined is left out.
JsonNumber(x) ==
  IF x = Undefined THEN Undefined ELSE IF IsFinite(x) THEN x ELSE Null

\* A fingerprint that leaves the average out.
JsonStockNoAverage(o) ==
  [ticker |-> Ticker(o),
   returns |-> [i \in 1..Len(Returns(o)) |-> JsonNumber(Returns(o)[i])],
   value |-> JsonNumber(heap[o].value),
   weight |-> JsonNumber(heap[o].weight)]

\* JSON.stringify(stock): the own properties of a Stock object.
JsonStock(o) ==
  [ticker |-> Ticker(o),
   returns |-> [i \in 1..Len(Returns(o)) |-> JsonNumber(Returns(o)[i])],
   average |-> JsonNumber(heap[o].average),
   value |-> JsonNumber(heap[o].value),
   weight |-> JsonNumber(heap[o].weight)]

\* JSON.stringify(this.stocks): every key with its stock, in key order.
Stringify(p) ==
  [i \in 1..Len(stocks[p]) |-> <<Ticker(stocks[p][i]), JsonStock(stocks[p][i])>>]

\* The risk calculateRisk computes on a cache miss.
Risk(p) ==
  TransposeMultiply(createWeightMatrix(p),
                    Multiply(createCovarianceMatrix(p), createWeightMatrix(p)))

\* A test that takes only a zero total for an empty portfolio.
IsEmptyOnlyZero(p) == value[p] = Num(0)

\* if (this.value <= 0): the portfolio counts as empty.
IsEmpty(p) == LeqZero(value[p])

\* A comparison that never finds the cached string.
CacheMissAlways(p) == TRUE

\* if (this.cache !== current)
CacheMiss(p) == cache[p] # <<Stringify(p)>>

\* What portfolio.calculateRisk() returns.
calculateRisk(p) ==
  IF IsEmpty(p) THEN Num(0)
  ELSE IF CacheMiss(p) THEN Risk(p)
  ELSE risk[p]

\* How many matrices portfolio.calculateRisk() constructs: the weight matrix
\* and the covariance matrix on a cache miss, none otherwise.
MatricesBuilt(p) == IF ~IsEmpty(p) /\ CacheMiss(p) THEN 2 ELSE 0

\* A calculateRisk() that stores the risk without the fingerprint.
CalculateRiskNoStore(p) ==
  /\ IF ~IsEmpty(p) /\ CacheMiss(p)
       THEN /\ cache' = cache
            /\ risk' = [risk EXCEPT ![p] = Risk(p)]
       ELSE UNCHANGED <<risk, cache>>
  /\ threw' = FALSE
  /\ UNCHANGED <<arrays, heap, stocks, value>>

\* portfolio.calculateRisk()
CalculateRisk(p) ==
  /\ IF ~IsEmpty(p) /\ CacheMiss(p)
       THEN /\ cache' = [cache EXCEPT ![p] = <<Stringify(p)>>]
            /\ risk' = [risk EXCEPT ![p] = Risk(p)]
       ELSE UNCHANGED <<risk, cache>>
  /\ threw' = FALSE
  /\ UNCHANGED <<arrays, heap, stocks, value>>

(***************************************************************************)
(* Specifications: one caller, one call at a time.  Each specification     *)
(* draws the calls' arguments from its own small sets.                     *)
(***************************************************************************)
\* The caller pushes the next tick of the feed on the Stock object o, as long
\* as its array holds fewer than max returns.
Load(o, wait, max) ==
  /\ Exists(o)
  /\ Len(Returns(o)) < max
  /\ Push(o, Tick(Len(Returns(o)) + 1)[1], Tick(Len(Returns(o)) + 1)[2], wait)

\* The caller recomputes the average of a Stock that has returns.
Recompute(o) == Exists(o) /\ Returns(o) # <<>> /\ CalculateAverage(o)

\* The caller changes the market value of a member.
Revalue(p, t, v) == hasStock(p, t) /\ UpdateStock(p, t, v)

\* Spec: the caller loads its stocks as the tests do (intel with immediate
\* averages, apple with immediate or deferred ones) and holds them by
\* reference in one portfolio, with zero and positive market values.
Next ==
  \/ \E t \in Tickers, wait \in BOOLEAN :
       (wait => t = "apple") /\ Load(Original(t), wait, MaxLen)
  \/ \E t \in Tickers : Recompute(Original(t))
  \/ \E p \in Single, t \in Tickers, v \in {0, 20} : AddStock(p, t, v, FALSE)
  \/ \E p \in Single, t \in Tickers : RemoveStock(p, t)
  \/ \E p \in Single, t \in Tickers, v \in {0, 20} : Revalue(p, t, v)
  \/ \E p \in Single : CalculateRisk(p)

Spec == Init /\ [][Next]_vars

\* SpecClone: stocks loaded with immediate averages and added by reference
\* or as a copy; the caller also pushes on the copies the portfolio holds.
NextClone ==
  \/ \E t \in Tickers : Load(Original(t), FALSE, MaxLen)
  \/ \E o \in Objects, wait \in BOOLEAN : o[1] # 0 /\ Load(o, wait, MaxLen)
  \/ \E o \in Objects : Recompute(o)
  \/ \E p \in Single, t \in Tickers, clone \in BOOLEAN : AddStock(p, t, 20, clone)
  \/ \E p \in Single, t \in Tickers : RemoveStock(p, t)

SpecClone == Init /\ [][NextClone]_vars

\* SpecMembers: stocks without history, added by reference or as a copy with
\* negative, zero and positive market values; the caller also names tickers
\* that are not members.
MemberValues == {0 - 4, 0, 7}

NextMembers ==
  \/ \E p \in Single, t \in Tickers, v \in MemberValues, clone \in BOOLEAN :
       AddStock(p, t, v, clone)
  \/ \E p \in Single, t \in Tickers : RemoveStock(p, t)
  \/ \E p \in Single, t \in Tickers, v \in MemberValues : UpdateStock(p, t, v)
  \/ \E p \in Single : CalculateRisk(p)

SpecMembers == Init /\ [][NextMembers]_vars

\* The membership operations alone: no risk is ever calculated.
NextUpsert ==
  \/ \E p \in Single, t \in Tickers, v \in MemberValues, clone \in BOOLEAN :
       AddStock(p, t, v, clone)
  \/ \E p \in Single, t \in Tickers : RemoveStock(p, t)
  \/ \E p \in Single, t \in Tickers, v \in MemberValues : UpdateStock(p, t, v)

SpecUpsert == Init /\ [][NextUpsert]_vars

\* SpecExample: the portfolio test: up to three ticks pushed on each stock
\* with immediate averages, market values 20 and 30.
NextExample ==
  \/ \E t \in Tickers : Load(Original(t), FALSE, MaxTicks)
  \/ \E p \in Single, t \in Tickers, v \in {20, 30} : AddStock(p, t, v, FALSE)
  \/ \E p \in Single, t \in Tickers : RemoveStock(p, t)
  \/ \E p \in Single : CalculateRisk(p)

SpecExample == Init /\ [][NextExample]_vars

\* SpecShared: two portfolios and stocks without history; each portfolio
\* adds the caller's stocks by reference or as a copy, with market values of
\* its own, changes the values of its members and removes them.  The second
\* portfolio deals in intel only.
SharedValues == {10, 30}

Deals(p, t) == p \in Single \/ t = "intel"

\* A call of a mutating method on portfolio p.
Call(p) ==
  \E t \in Tickers :
    /\ Deals(p, t)
    /\ \/ \E v \in SharedValues, clone \in BOOLEAN : AddStock(p, t, v, clone)
       \/ RemoveStock(p, t)
       \/ \E v \in SharedValues : Revalue(p, t, v)

NextShared ==
  \/ \E p \in Portfolios, t \in Tickers, v \in SharedValues, clone \in BOOLEAN :
       Deals(p, t) /\ AddStock(p, t, v, clone)
  \/ \E p \in Portfolios, t \in Tickers : Deals(p, t) /\ RemoveStock(p, t)
  \/ \E p \in Portfolios, t \in Tickers, v \in SharedValues :
       Deals(p, t) /\ Revalue(p, t, v)

SpecShared == Init /\ [][NextShared]_vars

(***************************************************************************)
(* Properties.                                                             *)
(***************************************************************************)
\* A sum over the index pairs, one term at a time.
RECURSIVE SumOver(_, _)
SumOver(f, n) == IF n = 0 THEN Num(0) ELSE Add(SumOver(f, n - 1), f[n])

\* The quadratic form w^T C w of portfolio p's current members, written as
\* the sum over all i, j of weight_i * C[i][j] * weight_j.
QuadraticForm(p) ==
  LET n == Len(stocks[p])
      w == [i \in 1..n |-> heap[stocks[p][i]].weight]
      row(i) == SumOver([j \in 1..n |->
                  Mul(Mul(w[i], calculateCovariance(stocks[p][i], stocks[p][j])), w[j])], n)
  IN  SumOver([i \in 1..n |-> row(i)], n)

\* The sum of the market values of portfolio p's current members.
TotalValue(p) ==
  SumOver([i \in 1..Len(stocks[p]) |-> heap[stocks[p][i]].value], Len(stocks[p]))

Positive(x) == x # NaN /\ x[1] > 0

\* C1: cache invalidation.  Whatever was pushed, added, removed or updated
\* before, a calculateRisk() call made while the total value is positive
\* returns the quadratic form of the members' current returns, averages and
\* weights, never a risk cached for a different state.
C1_CacheInvalidation ==
  \A p \in Portfolios :
    Positive(TotalValue(p)) => calculateRisk(p) = QuadraticForm(p)

\* C1 witness: two members with a positive total, a risk was cached, and a
\* later mutation made the cached risk differ from the current quadratic form.
C1_Witness ==
  /\ Len(stocks[1]) = 2
  /\ Positive(TotalValue(1))
  /\ cache[1] # NoCache
  /\ risk[1] # QuadraticForm(1)

\* C2 as amended: cache hit.  A calculateRisk() call made with a positive
\* total value leaves the portfolio in a state where a second call, made
\* before any push, calculateAverage, addStock, removeStock or updateStock,
\* returns the same value and constructs no matrix.
C2_CacheHit ==
  [][\A p \in Portfolios :
       (Positive(TotalValue(p)) /\ CalculateRisk(p))
         => /\ calculateRisk(p)' = calculateRisk(p)
            /\ MatricesBuilt(p)' = 0]_vars

\* C2 witness: the state a first call left: two members, a positive total,
\* and the cached string is the current one.
C2_Witness ==
  /\ Len(stocks[1]) = 2
  /\ Positive(TotalValue(1))
  /\ ~CacheMiss(1)
  /\ MatricesBuilt(1) = 0

\* C2 as stated: only push, addStock, removeStock and updateStock count as
\* mutations, so a second call that follows the first after nothing but
\* calculateAverage() calls returns the same value and constructs no matrix.
\* A calculateRisk() call changes nothing when the cached string is the
\* current one, so every such state is the state right after a first call:
\* the claim is that calculateRisk() and calculateAverage() calls made from
\* there leave the result of the next call unchanged and matrix-free.
C2_AsStated ==
  [][\A p \in Portfolios :
       (/\ Positive(TotalValue(p))
        /\ \/ CalculateRisk(p)
           \/ ~CacheMiss(p) /\ \E o \in Objects : CalculateAverage(o))
         => /\ calculateRisk(p)' = calculateRisk(p)
            /\ MatricesBuilt(p)' = 0]_vars

\* C3: clone independence.  While portfolio p holds the copy it made of the
\* caller's Stock of ticker t, a push on the caller's Stock (deferred or not)
\* leaves the copy's returns and average as they were.
C3_CloneIndependence ==
  [][\A p \in Portfolios, t \in Tickers :
       (/\ Exists(<<p, t>>)
        /\ \E k \in 1..Len(Feed), wait \in BOOLEAN :
             Push(Original(t), Feed[k][1], Feed[k][2], wait))
         => /\ Returns(<<p, t>>)' = Returns(<<p, t>>)
            /\ heap'[<<p, t>>].average = heap[<<p, t>>].average]_vars

\* The weights of portfolio p's members, in member order.
Weights(p) == [i \in 1..Len(stocks[p]) |-> heap[stocks[p][i]].weight]

Example(p) ==
  /\ stocks[p] = <<Original("intel"), Original("apple")>>
  /\ Returns(Original("intel")) = <<Num(100), Num(50), Num(0 - 50)>>
  /\ Returns(Original("apple")) = <<Num(100), Num(50)>>
  /\ heap[Original("intel")].value = Num(30)
  /\ heap[Original("apple")].value = Num(20)

\* C5: on a cache miss with a positive total value, calculateRisk() returns
\* the sum over all members i, j of weight_i * C[i][j] * weight_j, with C the
\* matrix of createCovarianceMatrix() and the weights of createWeightMatrix()
\* in the same member order; in the state of the portfolio test it returns
\* 600.52.
C5_RiskIsQuadraticForm ==
  \A p \in Portfolios :
    /\ (Positive(value[p]) /\ CacheMiss(p)) =>
         LET n == Len(stocks[p])
             C == createCovarianceMatrix(p)
             w == createWeightMatrix(p)
         IN  calculateRisk(p) =
               SumOver([i \in 1..n |->
                 SumOver([j \in 1..n |-> Mul(Mul(w[i], C[i][j]), w[j])], n)], n)
    /\ Example(p) => calculateRisk(p) = <<15013, 25>>

\* C5 witness: the state of the portfolio test, with no risk cached for it.
C5_Witness == Example(1) /\ CacheMiss(1) /\ Positive(value[1])

\* C6: for two distinct stocks a and b with n = min of their returns' lengths
\* at least 2, calculateCovariance(a, b) is the sum over the first n returns
\* of (a.returns[i] - a.average) * (b.returns[i] - b.average), divided by
\* n - 1, with each stock's stored average; for intel (100, 50, -50) and
\* apple (100, 50) it is 1250.
C6_SampleCovariance ==
  /\ \A a, b \in Objects :
       LET n == IF Len(Returns(a)) < Len(Returns(b))
                  THEN Len(Returns(a)) ELSE Len(Returns(b))
       IN  (Exists(a) /\ Exists(b) /\ a # b /\ n >= 2) =>
             Mul(calculateCovariance(a, b), Num(n - 1)) =
               SumOver([i \in 1..n |->
                 Mul(Sub(Returns(a)[i], heap[a].average),
                     Sub(Returns(b)[i], heap[b].average))], n)
  /\ Example(1) =>
       calculateCovariance(Original("intel"), Original("apple")) = Num(1250)

\* C6 witness: the stocks of the portfolio test; intel's average is taken
\* over its three returns and the covariance over the first two.
C6_Witness ==
  /\ Example(1)
  /\ heap[Original("intel")].average = <<100, 3>>
  /\ heap[Original("apple")].average = Num(75)

C8_EmptyPortfolio ==
  /\ [](\A p \in Portfolios :
          LeqZero(TotalValue(p)) =>
            calculateRisk(p) = Num(0) /\ MatricesBuilt(p) = 0)
  /\ [][\A p \in Portfolios :
          (LeqZero(TotalValue(p)) /\ CalculateRisk(p)) => UNCHANGED <<cache, risk>>]_vars

\* C8 witness: two members whose values sum to less than zero, with a risk
\* cached earlier for another state.
C8_Witness ==
  /\ Len(stocks[1]) = 2
  /\ TotalValue(1)[1] < 0
  /\ cache[1] # NoCache
  /\ CacheMiss(1)

\* C9: upsert.  addStock never fails and leaves the ticker a member; for a
\* ticker that is a member the keys stay as they are, for any other ticker
\* exactly that key is added; afterwards the member under the ticker is the
\* supplied stock (or the copy of it), with the supplied value.
C9_Upsert ==
  [][\A p \in Portfolios, t \in Tickers, v \in MemberValues, clone \in BOOLEAN :
       AddStock(p, t, v, clone) =>
         /\ threw' = FALSE
         /\ hasStock(p, t)'
         /\ getStockTickers(p)' =
              (IF hasStock(p, t) THEN getStockTickers(p)
                                 ELSE Append(getStockTickers(p), t))
         /\ Member(p, t)' = (IF clone THEN <<p, t>> ELSE Original(t))
         /\ heap'[Member(p, t)'].value = Num(v)
         /\ heap'[Member(p, t)'].returns = heap[Original(t)].returns
         /\ heap'[Member(p, t)'].average = heap[Original(t)].average]_vars

\* C9 witness: intel was added by reference first and then again as a copy:
\* the copy took intel's place before apple, with another value.
C9_Witness ==
  /\ stocks[1] = << <<1, "intel">>, Original("apple") >>
  /\ heap[Original("intel")].value = Num(7)
  /\ heap[<<1, "intel">>].value = Num(0 - 4)

\* C10: removeStock never fails; for a ticker that is not a member it leaves
\* the members, every stock's value and weight, the total value, cache and
\* risk unchanged; for a member it removes exactly that key and leaves the
\* other members' stocks and values as they were.
C10_Remove ==
  [][\A p \in Portfolios, t \in Tickers :
       RemoveStock(p, t) =>
         /\ threw' = FALSE
         /\ ~hasStock(p, t)'
         /\ IF ~hasStock(p, t)
              THEN UNCHANGED <<stocks, heap, value, cache, risk>>
              ELSE /\ getStockTickers(p)' =
                        SelectSeq(getStockTickers(p), LAMBDA u : u # t)
                   /\ \A u \in Tickers \ {t} :
                        hasStock(p, u) =>
                          /\ Member(p, u)' = Member(p, u)
                          /\ heap'[Member(p, u)].value = heap[Member(p, u)].value]_vars

\* C10 witness: intel was a member and was removed, apple is still a member,
\* and a risk is cached.
C10_Witness ==
  /\ getStockTickers(1) = <<"apple">>
  /\ heap[Original("intel")].value # Undefined
  /\ cache[1] # NoCache

\* C11: updateStock with a ticker that is not a member fails, and leaves the
\* members, every stock's value and weight, the total value, cache and risk
\* unchanged.
C11_UpdateUnknown ==
  [][\A p \in Portfolios, t \in Tickers, v \in MemberValues :
       (~hasStock(p, t) /\ UpdateStock(p, t, v)) =>
         /\ threw' = TRUE
         /\ ~hasStock(p, t)'
         /\ UNCHANGED <<stocks, heap, value, cache, risk>>]_vars

\* C11 witness: an update has just failed on a portfolio that has a member
\* and a cached risk; apple is not a member.
C11_Witness ==
  /\ threw
  /\ getStockTickers(1) = <<"intel">>
  /\ cache[1] # NoCache

\* C12: updateStock on a member takes any value, zero and negative ones
\* included: the member's value becomes the supplied value, the members stay
\* the same, and no other member's value changes.
C12_UpdateMember ==
  [][\A p \in Portfolios, t \in Tickers, v \in MemberValues :
       (hasStock(p, t) /\ UpdateStock(p, t, v)) =>
         /\ threw' = FALSE
         /\ stocks' = stocks
         /\ heap'[Member(p, t)].value = Num(v)
         /\ \A u \in Tickers \ {t} :
              hasStock(p, u) => heap'[Member(p, u)].value = heap[Member(p, u)].value]_vars

\* C12 witness: two members, one given a negative and one a zero value after
\* they were added with other values; the total is negative.
C12_Witness ==
  /\ Len(stocks[1]) = 2
  /\ heap[stocks[1][1]].value = Num(0 - 4)
  /\ heap[stocks[1][2]].value = Num(0)
  /\ value[1] = Num(0 - 4)
  /\ ~threw

\* The mean of the returns rs.
Mean(rs) == Div(SumOver(rs, Len(rs)), Num(Len(rs)))

\* The return of the k-th tick of the feed, in percent.
Percent(k) == Norm((Feed[k][2] - Feed[k][1]) * 100, Feed[k][1])

\* C13: after every push that does not defer the average, and after every
\* calculateAverage() on a stock that has returns, the stock's average is the
\* sum of all its returns divided by their count, the returns of earlier
\* deferred pushes included; calculateAverage() returns that value.
C13_Average ==
  [][\A o \in Objects :
       Exists(o) =>
         /\ (\E k \in 1..Len(Feed) : Push(o, Feed[k][1], Feed[k][2], FALSE))
              => heap'[o].average = Mean(Returns(o)')
         /\ (Returns(o) # <<>> /\ CalculateAverage(o))
              => /\ heap'[o].average = Mean(Returns(o)')
                 /\ calculateAverage(Returns(o)) = heap'[o].average]_vars

\* C13 witness: apple's average is up to date over two returns while intel's,
\* pushed once, is 100.
C13_Witness ==
  /\ Returns(Original("apple")) = <<Num(100), Num(50)>>
  /\ heap[Original("apple")].average = Num(75)
  /\ Returns(Original("intel")) = <<Num(100)>>
  /\ heap[Original("intel")].average = Num(100)

\* C14: a push that defers the average appends exactly one return,
\* (close - open) / open * 100, at the end of the returns and leaves the
\* earlier returns and the stored average unchanged; a stock's average
\* changes only in a push that does not defer it or in calculateAverage().
C14_DeferredPush ==
  [][\A o \in Objects :
       Exists(o) =>
         /\ \A k \in 1..Len(Feed) :
              Push(o, Feed[k][1], Feed[k][2], TRUE) =>
                /\ Returns(o)' = Append(Returns(o), Percent(k))
                /\ heap'[o].average = heap[o].average
         /\ (Exists(o)' /\ heap'[o].average # heap[o].average) =>
              \/ \E k \in 1..Len(Feed) : Push(o, Feed[k][1], Feed[k][2], FALSE)
              \/ CalculateAverage(o)]_vars

\* C14 witness: apple, new, has two returns from deferred pushes and still
\* the average 0.
C14_Witness ==
  /\ Returns(Original("apple")) = <<Num(100), Num(50)>>
  /\ heap[Original("apple")].average = Num(0)

\* C15: in one portfolio, after every addStock, removeStock and updateStock,
\* the total value is the sum of the members' values, and whenever it is not
\* zero every member's weight is its value divided by that total: no member
\* keeps a weight taken against an earlier total.
C15_TotalAndWeights ==
  \A p \in Portfolios :
    /\ value[p] = TotalValue(p)
    /\ TotalValue(p)[1] # 0 =>
         \A i \in 1..Len(stocks[p]) :
           heap[stocks[p][i]].weight = Div(heap[stocks[p][i]].value, TotalValue(p))

\* C15 witness: intel, first alone with weight 1, has the weight 7/3 since
\* apple came in with a negative value.
C15_Witness ==
  /\ stocks[1] = <<Original("intel"), <<1, "apple">> >>
  /\ value[1] = Num(3)
  /\ heap[Original("intel")].weight = <<7, 3>>
  /\ heap[<<1, "apple">>].weight = <<0 - 4, 3>>

\* Every member of portfolio p is a copy that p made.
OwnCopies(p) == \A i \in 1..Len(stocks[p]) : stocks[p][i][1] = p

\* The total value of portfolio p is the sum of its members' values and,
\* unless it is zero, every member's weight is its value divided by it.
Consistent(p) ==
  /\ value[p] = TotalValue(p)
  /\ TotalValue(p)[1] # 0 =>
       \A i \in 1..Len(stocks[p]) :
         heap[stocks[p][i]].weight = Div(heap[stocks[p][i]].value, TotalValue(p))

\* What portfolio p holds: its members with their values, weights, averages
\* and returns, its total value, and its cache and risk; calculateRisk()
\* reads nothing else, so that its result is the same where these are.
Holdings(p) ==
  << stocks[p],
     [i \in 1..Len(stocks[p]) |-> heap[stocks[p][i]]],
     [i \in 1..Len(stocks[p]) |-> Returns(stocks[p][i])],
     value[p], cache[p], risk[p] >>

\* C16, as amended: when the stocks are registered as copies (clone true),
\* each portfolio keeps its own value and weight for them: a portfolio whose
\* members are all copies of its own always has the sum of their values for
\* total and value / total for weights, and a call on another portfolio
\* changes none of its values, weights, total value or risk.
C16_OwnCopies ==
  /\ [](\A p \in Portfolios : OwnCopies(p) => Consistent(p))
  /\ [][\A p, q \in Portfolios :
          (p # q /\ OwnCopies(p) /\ Call(q)) => Holdings(p)' = Holdings(p)]_vars

\* C16 witness: both portfolios hold a copy of intel, with the values 10 and
\* 30; the first also holds a copy of apple.
C16_Witness ==
  /\ stocks[1] = << <<1, "intel">>, <<1, "apple">> >>
  /\ stocks[2] = << <<2, "intel">> >>
  /\ heap[<<1, "intel">>].value = Num(10)
  /\ heap[<<2, "intel">>].value = Num(30)
  /\ heap[<<1, "intel">>].weight = <<1, 4>>
  /\ heap[<<2, "intel">>].weight = Num(1)

\* C16, as stated: also with stocks registered by reference in both
\* portfolios, after a call on portfolio q each portfolio has the sum of its
\* members' values for total and value / total for weights, and the call has
\* changed none of the other's values, weights, total value or risk.
C16_AsStated ==
  [][\A p, q \in Portfolios :
       (p # q /\ Call(q)) =>
         /\ Consistent(q)'
         /\ Consistent(p)' /\ Holdings(p)' = Holdings(p)]_vars

\* C17: calculateWeights() never leaves a member with the result of a
\* division by zero for weight: every member's weight is an ordinary number,
\* also when the total value is 0.
C17_DefinedWeights ==
  \A p \in Portfolios :
    \A i \in 1..Len(stocks[p]) : IsFinite(heap[stocks[p][i]].weight)

\* The outcome of an operation that fails with a domain error.
DomainError == <<"DomainError">>

\* C18: calculateCovariance(a, b) of distinct stocks of which one has fewer
\* than two returns is an error: it returns neither an ordinary number nor
\* the result of a division by zero, and no entry of the matrix of
\* createCovarianceMatrix() is such a value.
C18_DegenerateCovariance ==
  /\ \A a, b \in Objects :
       (/\ Exists(a) /\ Exists(b) /\ a # b
        /\ (Len(Returns(a)) <= 1 \/ Len(Returns(b)) <= 1))
         => calculateCovariance(a, b) = DomainError
  /\ \A p \in Portfolios :
       \A i, j \in 1..Len(stocks[p]) :
         (/\ i # j
          /\ (Len(Returns(stocks[p][i])) <= 1 \/ Len(Returns(stocks[p][j])) <= 1))
           => createCovarianceMatrix(p)[i][j] = DomainError

\* The cached fingerprint of portfolio p is that of its current members.
Clean(p) == cache[p] = <<Stringify(p)>>

\* A call of addStock, removeStock or updateStock on portfolio p, with the
\* arguments of Spec.
Mutation(p) ==
  \E t \in Tickers :
    \/ \E v \in {0, 20} : AddStock(p, t, v, FALSE) \/ Revalue(p, t, v)
    \/ RemoveStock(p, t)

\* A push on a Stock that is a member of portfolio p.
MemberPush(p) ==
  \E i \in 1..Len(stocks[p]), k \in 1..Len(Feed), wait \in BOOLEAN :
    Push(stocks[p][i], Feed[k][1], Feed[k][2], wait)

\* C19, as amended: every calculateRisk() call made with a positive total
\* value leaves the portfolio clean; every push on a member leaves it dirty;
\* addStock, removeStock and updateStock leave the cached fingerprint as it
\* was, so that the portfolio is dirty after them exactly when its members'
\* state is not the one last fingerprinted.
C19_DirtyClean ==
  [][\A p \in Portfolios :
       /\ (Positive(value[p]) /\ CalculateRisk(p)) => Clean(p)'
       /\ MemberPush(p) => ~Clean(p)'
       /\ Mutation(p) => (Clean(p)' <=> cache[p] = <<Stringify(p)'>>)]_vars

\* C19 witness: a clean portfolio whose one member has two returns and a
\* positive value.
C19_Witness ==
  /\ Len(stocks[1]) = 1
  /\ Len(Returns(stocks[1][1])) = 2
  /\ Positive(value[1])
  /\ Clean(1)

\* C19, as stated: every addStock, removeStock and updateStock and every
\* push on a member leaves the portfolio dirty, and every calculateRisk()
\* leaves it clean.
C19_AsStated ==
  [][\A p \in Portfolios :
       /\ CalculateRisk(p) => Clean(p)'
       /\ (MemberPush(p) \/ Mutation(p)) => ~Clean(p)']_vars

====
